---------------------------- MODULE Spec2Model ----------------------------
(***************************************************************************)
(* Model of the ESP32 smart flood node (src/smartnode.c): setup(), the     *)
(* sample / classify / print / checkWiFi / POST / delay cycle of loop(),   *)
(* getUltrasonic() and checkWiFi().                                        *)
(*                                                                         *)
(* Distances.  distanceCM is a float holding duration * 0.034 / 2.0 cm,    *)
(* that is duration * 17 / 1000 cm.  The model keeps every distance in     *)
(* thousandths of a centimetre, so a distance is the integer 17 * duration *)
(* and the literals 400, 10 and 20 of the source are 400000, 10000 and     *)
(* 20000.  No integer duration makes 17 * duration equal to 10000, 20000   *)
(* or 400000, and the nearest products are 4 thousandths away, far more    *)
(* than the rounding of a float, so the comparisons of the source and of   *)
(* the model agree.                                                        *)
(*                                                                         *)
(* The link.  WiFi.status() reads the state of the radio, which changes    *)
(* on its own while the program runs; it is the variable link, changed by  *)
(* linkChange at any moment and forced down by WiFi.disconnect().          *)
(***************************************************************************)
EXTENDS Integers, Sequences, FiniteSets

VARIABLES
    pc,               \* position of the single thread of control
    link,             \* TRUE iff WiFi.status() would return WL_CONNECTED
    duration,         \* long duration         (line 17)
    distanceCM,       \* float distanceCM      (line 18), thousandths of a cm
    rainAnalog,       \* int rainAnalog        (line 19)
    rainIntensity,    \* String rainIntensity  (line 20)
    floodStatus,      \* String floodStatus    (line 21)
    attempts,         \* int attempts of checkWiFi (line 52): the delays of
                      \* this cycle's call; reset when the cycle ends
    client,           \* WiFiClientSecure *client, local of loop (line 132)
    httpResponseCode, \* int httpResponseCode, local of loop (line 142)
    handles,          \* number of live WiFiClientSecure objects
    printed,          \* the diagnostic block printed in this cycle
    posted,           \* the payloads POSTed in this cycle, in order
    wifiOutcome,      \* how this cycle's checkWiFi call ended
    sawUp,            \* some WiFi.status() read of this cycle was WL_CONNECTED
    sendRead,         \* what the read of line 131 returned in this cycle
    cw,               \* what this cycle's checkWiFi call has done so far
    ref               \* a remembered classified sample of an earlier cycle

sensors == <<duration, distanceCM, rainAnalog>>
labels  == <<rainIntensity, floodStatus>>
http    == <<client, httpResponseCode, handles>>
history == <<printed, posted, wifiOutcome, sawUp, sendRead, cw>>
vars    == <<pc, link, sensors, labels, attempts, http, history, ref>>

-----------------------------------------------------------------------------
(* Program constants                                                       *)

\* pulseIn(ECHO, HIGH, 30000): the timeout in microseconds
PulseTimeout == 30000

\* analogRead of the 12-bit ADC of the ESP32 returns 0..4095
AdcMax == 4095

\* the thresholds of the rain ladder, lines 88..94
RainThresholds == {3600, 3000, 2400, 1800}

\* the distance thresholds of the flood ladder in cm, lines 100 and 102
DistanceMarksCM == {10, 20}

RainLabels == {"NO RAIN", "LIGHT RAIN", "MODERATE RAIN", "HEAVY RAIN",
               "TORRENTIAL RAIN"}

FloodLabels == {"CRITICAL FLOOD", "FLOOD RISK", "RAIN ALERT", "NORMAL"}

\* http.POST returns the HTTP status code, or a negative HTTPClient error
ResponseCodes == {-1, 200, 500}

NoRecord == [none |-> TRUE]

\* downReads: the reads of line 53 that were not WL_CONNECTED; loopEnd: how the
\* while of line 53 ended
NoCall == [disconnects |-> 0, begins |-> 0, downReads |-> 0, loopEnd |-> "none"]

-----------------------------------------------------------------------------
(* Bounds of the model: which raw values the sensors deliver               *)

\* rain values this far on each side of every rain threshold are sampled
RainSpread == 1

\* echo times this far above the last one below each distance mark
EchoSpread == 1

\* an echo time whose distance, 14.875 cm, a float holds exactly and which
\* lies half-way between two hundredths
HalfwayEcho == 7 * 125

\* the longest echo time whose distance is below cm centimetres
LastBelow(cm) == (cm * 1000 - 1) \div 17

RainSamples ==
    {0, AdcMax} \cup
    {t + d : t \in RainThresholds, d \in (0 - RainSpread)..RainSpread}

EchoSamples ==
    {0, HalfwayEcho, PulseTimeout} \cup
    {LastBelow(c) + d : c \in DistanceMarksCM, d \in 0..EchoSpread}

\* the few samples of the cycles that are compared with a remembered one
FewRainSamples == {2400 - RainSpread, 2400, 3700}

FewEchoSamples == {0} \cup {LastBelow(10) + d : d \in 0..EchoSpread}

AllEchoTimes == 0..PulseTimeout

-----------------------------------------------------------------------------
(* Pure functions of the source                                            *)

\* a conversion without the no-echo test of line 76
ultrasonicDistanceNoEchoTest(t) == 17 * t

\* a conversion that forgets to halve the round trip
ultrasonicDistanceRoundTrip(t) ==
    IF t = 0 THEN 400000 ELSE 34 * t

\* getUltrasonic, lines 76..78: the distance for the value pulseIn returned
ultrasonicDistance(t) ==
    IF t = 0 THEN 400000 ELSE 17 * t

\* a rain ladder whose comparisons are >= instead of >
rainIntensityOfInclusive(r) ==
    IF r >= 3600 THEN "NO RAIN"
    ELSE IF r >= 3000 THEN "LIGHT RAIN"
    ELSE IF r >= 2400 THEN "MODERATE RAIN"
    ELSE IF r >= 1800 THEN "HEAVY RAIN"
    ELSE "TORRENTIAL RAIN"

\* loop, lines 88..97
rainIntensityOf(r) ==
    IF r > 3600 THEN "NO RAIN"
    ELSE IF r > 3000 THEN "LIGHT RAIN"
    ELSE IF r > 2400 THEN "MODERATE RAIN"
    ELSE IF r > 1800 THEN "HEAVY RAIN"
    ELSE "TORRENTIAL RAIN"

\* a flood ladder that tests the 20 cm band before the 10 cm band
floodStatusOfRiskFirst(r, d) ==
    IF r < 2400 /\ d < 20000 THEN "FLOOD RISK"
    ELSE IF r < 2400 /\ d < 10000 THEN "CRITICAL FLOOD"
    ELSE IF r < 2400 THEN "RAIN ALERT"
    ELSE "NORMAL"

\* a flood ladder whose first test forgets the rain
floodStatusOfDistanceOnly(r, d) ==
    IF d < 10000 THEN "CRITICAL FLOOD"
    ELSE IF r < 2400 /\ d < 20000 THEN "FLOOD RISK"
    ELSE IF r < 2400 THEN "RAIN ALERT"
    ELSE "NORMAL"

\* a flood ladder whose rain tests are <= instead of <
floodStatusOfInclusive(r, d) ==
    IF r <= 2400 /\ d < 10000 THEN "CRITICAL FLOOD"
    ELSE IF r <= 2400 /\ d < 20000 THEN "FLOOD RISK"
    ELSE IF r <= 2400 THEN "RAIN ALERT"
    ELSE "NORMAL"

\* loop, lines 100..107
floodStatusOf(r, d) ==
    IF r < 2400 /\ d < 10000 THEN "CRITICAL FLOOD"
    ELSE IF r < 2400 /\ d < 20000 THEN "FLOOD RISK"
    ELSE IF r < 2400 THEN "RAIN ALERT"
    ELSE "NORMAL"

\* A float or a double is held exactly, as a whole number of units of 2^-60
\* in four limbs of 20 bits, the lowest first: limb 4 is the integer part.
Limb == 2^20

\* the number 1.0
bigOne == <<0, 0, 0, 1>>

\* x * m for a small whole number m
bigTimes(x, m) ==
    LET p1 == x[1] * m
        p2 == x[2] * m + p1 \div Limb
        p3 == x[3] * m + p2 \div Limb
        p4 == x[4] * m + p3 \div Limb
    IN  <<p1 % Limb, p2 % Limb, p3 % Limb, p4>>

\* x + y
bigPlus(x, y) ==
    LET s1 == x[1] + y[1]
        s2 == x[2] + y[2] + s1 \div Limb
        s3 == x[3] + y[3] + s2 \div Limb
        s4 == x[4] + y[4] + s3 \div Limb
    IN  <<s1 % Limb, s2 % Limb, s3 % Limb, s4>>

\* x / m for a small whole number m: the quotient q and the remainder r
bigDivide(x, m) ==
    LET a4 == x[4]
        a3 == (a4 % m) * Limb + x[3]
        a2 == (a3 % m) * Limb + x[2]
        a1 == (a2 % m) * Limb + x[1]
    IN  [q |-> <<a1 \div m, a2 \div m, a3 \div m, a4 \div m>>, r |-> a1 % m]

\* the number of binary digits of n
RECURSIVE bitLength(_)
bitLength(n) == IF n = 0 THEN 0 ELSE 1 + bitLength(n \div 2)

\* the number of binary digits of x
bigLength(x) ==
    IF x[4] > 0 THEN 60 + bitLength(x[4])
    ELSE IF x[3] > 0 THEN 40 + bitLength(x[3])
    ELSE IF x[2] > 0 THEN 20 + bitLength(x[2])
    ELSE bitLength(x[1])

\* binary digit i of x, the lowest being digit 0
bigBit(x, i) == (x[i \div 20 + 1] \div 2^(i % 20)) % 2

\* x + r / m rounded to p significant binary digits, ties to even: what the
\* floating-point unit stores of an exact result
roundTo(x, r, m, p) ==
    LET k == bigLength(x) - p
    IN  IF k <= 0
        THEN IF 2 * r > m \/ (2 * r = m /\ x[1] % 2 = 1)
             THEN bigPlus(x, <<1, 0, 0, 0>>) ELSE x
        ELSE LET half   == bigBit(x, k - 1) = 1
                 sticky == r > 0 \/ \E i \in 0..(k - 2) : bigBit(x, i) = 1
                 odd    == bigBit(x, k) = 1
                 cut    == [i \in 1..4 |->
                              IF 20 * i <= k THEN 0
                              ELSE IF 20 * (i - 1) >= k THEN x[i]
                              ELSE x[i] - (x[i] % 2^(k - 20 * (i - 1)))]
                 unit   == [i \in 1..4 |->
                              IF i = k \div 20 + 1 THEN 2^(k % 20) ELSE 0]
             IN  IF half /\ (sticky \/ odd) THEN bigPlus(cut, unit) ELSE cut

\* the result of a double division x / m
doubleQuotient(x, m) ==
    LET d == bigDivide(x, m) IN roundTo(d.q, d.r, m, 53)

\* the float distanceCM holds for a distance of d thousandths of a cm
floatOf(d) ==
    LET v == bigDivide(<<0, 0, 0, d>>, 1000) IN roundTo(v.q, v.r, 1000, 24)

\* dtostrf: while (number >= 10.0 * tenpow) tenpow *= 10.0
RECURSIVE tenpowOf(_, _)
tenpowOf(number, tenpow) ==
    IF number[4] >= 10 * tenpow THEN tenpowOf(number, 10 * tenpow) ELSE tenpow

\* the decimal digits of n
RECURSIVE digitCount(_)
digitCount(n) == IF n < 10 THEN 1 ELSE 1 + digitCount(n \div 10)

\* dtostrf: the loop that writes digitcount digits of number, read as one
\* whole number
RECURSIVE writeDigits(_, _, _)
writeDigits(number, digitcount, written) ==
    IF digitcount = 0 THEN written
    ELSE LET digit == IF number[4] > 9 THEN 9 ELSE number[4]
             rest  == [number EXCEPT ![4] = @ - digit]
         IN  writeDigits(roundTo(bigTimes(rest, 10), 0, 1, 53),
                         digitcount - 1, 10 * written + digit)

\* 10^n
RECURSIVE pow10(_)
pow10(n) == IF n = 0 THEN 1 ELSE 10 * pow10(n - 1)

\* dtostrf(number, width, prec, buf) of the ESP32 core, which String(float,
\* decimalPlaces) calls: the text written, read as a whole number of units of
\* 10^-prec.  It adds 1 / (2 * 10^prec), scales the sum below 10 and takes
\* the digits off one at a time, all in doubles.
dtostrf(number, prec) ==
    LET rounding == doubleQuotient(bigOne, 2 * pow10(prec))
        sum      == roundTo(bigPlus(number, rounding), 0, 1, 53)
        tenpow   == tenpowOf(sum, 1)
    IN  writeDigits(doubleQuotient(sum, tenpow),
                    digitCount(tenpow) + prec, 0)

\* Print::printFloat: the loop that prints digits decimals of remainder, read
\* as one whole number after the integer part already printed
RECURSIVE printDecimals(_, _, _)
printDecimals(remainder, digits, printed0) ==
    IF digits = 0 THEN printed0
    ELSE LET scaled  == roundTo(bigTimes(remainder, 10), 0, 1, 53)
             toPrint == scaled[4]
         IN  printDecimals([scaled EXCEPT ![4] = 0], digits - 1,
                           10 * printed0 + toPrint)

\* 0.5 divided by 10.0 n times, in doubles
RECURSIVE halfTenth(_)
halfTenth(n) ==
    IF n = 0 THEN <<0, 0, Limb \div 2, 0>>
    ELSE doubleQuotient(halfTenth(n - 1), 10)

\* Print::printFloat(number, digits) of the ESP32 core, which
\* Serial.print(float) calls with two digits: the text printed, read as a
\* whole number of units of 10^-digits.  It adds 0.5 / 10^digits, prints the
\* integer part and takes the decimals off the remainder one at a time.
printFloat(number, digits) ==
    LET sum == roundTo(bigPlus(number, halfTenth(digits)), 0, 1, 53)
    IN  printDecimals([sum EXCEPT ![4] = 0], digits, sum[4])

\* the values distanceCM takes: 0.0 at power-on, then what getUltrasonic
\* returns for the values of pulseIn
Distances == {0} \cup {ultrasonicDistance(t) : t \in 0..PulseTimeout}

\* what Serial.print(float) prints of each distance, worked out once
printedText == [d \in Distances |-> printFloat(floatOf(d), 2)]

\* what String(float) holds of each distance, worked out once
stringText == [d \in Distances |-> dtostrf(floatOf(d), 2)]

\* Serial.print(distanceCM), line 120: two decimals, in hundredths of a cm
twoDecimals(d) == printedText[d]

\* String(distanceCM), line 140: two decimals, in hundredths of a cm
stringTwoDecimals(d) == stringText[d]

\* a poll loop whose bound is off by one
keepPollingOneMore(connected, n) == (~connected) /\ n <= 20

\* the condition of the while of checkWiFi, line 53
keepPolling(connected, n) == (~connected) /\ n < 20

\* a send that does not look at the link
shouldSendAlways(connected) == TRUE

\* a send behind the result of checkWiFi turned around
shouldSendInverted(connected) == ~connected

\* the condition of the if of line 131
shouldSend(connected) == connected

\* what lines 113..124 print
record(r, ri, d, fs) ==
    [rain_analog |-> r, rain_intensity |-> ri,
     water_distance_cm |-> twoDecimals(d), flood_status |-> fs]

\* what line 140 puts in the payload
payload(r, ri, d, fs) ==
    [rain_analog |-> r, rain_intensity |-> ri,
     water_distance_cm |-> stringTwoDecimals(d), flood_status |-> fs]

-----------------------------------------------------------------------------
(* Power-on                                                                *)

Init ==
    /\ pc = "setup_begin"
    /\ link = FALSE
    /\ duration = 0
    /\ distanceCM = 0
    /\ rainAnalog = 0
    /\ rainIntensity = ""
    /\ floodStatus = ""
    /\ attempts = 0
    /\ client = "none"
    /\ httpResponseCode = 0
    /\ handles = 0
    /\ printed = NoRecord
    /\ posted = <<>>
    /\ wifiOutcome = "none"
    /\ sawUp = FALSE
    /\ sendRead = "none"
    /\ cw = NoCall
    /\ ref = NoRecord

-----------------------------------------------------------------------------
(* setup(), lines 23..45                                                   *)

\* lines 24..34: pins, WiFi.begin
setupBegin ==
    /\ pc = "setup_begin"
    /\ pc' = "setup_wait"
    /\ UNCHANGED <<link, sensors, labels, attempts, http, history, ref>>

\* line 35: while (WiFi.status() != WL_CONNECTED)
setupWait ==
    /\ pc = "setup_wait"
    /\ pc' = IF link THEN "setup_done" ELSE "setup_delay"
    /\ UNCHANGED <<link, sensors, labels, attempts, http, history, ref>>

\* lines 36..37: delay(500)
setupDelay ==
    /\ pc = "setup_delay"
    /\ pc' = "setup_wait"
    /\ UNCHANGED <<link, sensors, labels, attempts, http, history, ref>>

\* lines 40..44: the banner and delay(2000); loop() is called next
setupDone ==
    /\ pc = "setup_done"
    /\ pc' = "read_rain"
    /\ UNCHANGED <<link, sensors, labels, attempts, http, history, ref>>

-----------------------------------------------------------------------------
(* getUltrasonic(), lines 67..79                                           *)

\* the trigger pulse, pulseIn and the conversion; pulses are the values
\* pulseIn may return
getUltrasonic(pulses) ==
    /\ pc = "ultrasonic"
    /\ \E t \in pulses :
           /\ duration' = t
           /\ distanceCM' = ultrasonicDistance(t)
    /\ pc' = "rain_ladder"
    /\ UNCHANGED <<link, rainAnalog, labels, attempts, http, history, ref>>

-----------------------------------------------------------------------------
(* loop(), lines 81..153                                                   *)

\* line 84: rainAnalog = analogRead(RAIN_AO); raws are the values it may return
readRain(raws) ==
    /\ pc = "read_rain"
    /\ \E r \in raws : rainAnalog' = r
    /\ pc' = "ultrasonic"
    /\ UNCHANGED <<link, duration, distanceCM, labels, attempts, http,
                   history, ref>>

\* lines 88..97
rainLadder ==
    /\ pc = "rain_ladder"
    /\ rainIntensity' = rainIntensityOf(rainAnalog)
    /\ pc' = "flood_ladder"
    /\ UNCHANGED <<link, sensors, floodStatus, attempts, http, history, ref>>

\* a flood ladder that never lowers a CRITICAL FLOOD while it rains
floodLadderLatched ==
    /\ pc = "flood_ladder"
    /\ floodStatus' =
          IF floodStatus = "CRITICAL FLOOD" /\ rainAnalog < 2400
          THEN "CRITICAL FLOOD"
          ELSE floodStatusOf(rainAnalog, distanceCM)
    /\ pc' = "serial_out"
    /\ UNCHANGED <<link, sensors, rainIntensity, attempts, http, history, ref>>

\* lines 100..107
floodLadder ==
    /\ pc = "flood_ladder"
    /\ floodStatus' = floodStatusOf(rainAnalog, distanceCM)
    /\ pc' = "serial_out"
    /\ UNCHANGED <<link, sensors, rainIntensity, attempts, http, history, ref>>

\* a diagnostic block after which checkWiFi is not called
serialOutNoCheck ==
    /\ pc = "serial_out"
    /\ printed' = record(rainAnalog, rainIntensity, distanceCM, floodStatus)
    /\ pc' = "send_check"
    /\ UNCHANGED <<link, sensors, labels, attempts, http, posted, wifiOutcome,
                   sawUp, sendRead, cw, ref>>

\* lines 110..126: the diagnostic block
serialOut ==
    /\ pc = "serial_out"
    /\ printed' = record(rainAnalog, rainIntensity, distanceCM, floodStatus)
    /\ pc' = "cw_entry"
    /\ UNCHANGED <<link, sensors, labels, attempts, http, posted, wifiOutcome,
                   sawUp, sendRead, cw, ref>>

\* line 131: if (WiFi.status() == WL_CONNECTED)
sendCheck ==
    /\ pc = "send_check"
    /\ sendRead' = IF link THEN "up" ELSE "down"
    /\ sawUp' = (sawUp \/ link)
    /\ pc' = IF shouldSend(link) THEN "new_client" ELSE "sleep"
    /\ UNCHANGED <<link, sensors, labels, attempts, http, printed, posted,
                   wifiOutcome, cw, ref>>

\* lines 132..133: new WiFiClientSecure, and if (client).  The plain new
\* never yields a null pointer, so the test of line 133 always passes: the
\* object is created, or the allocation fails and the run is aborted inside
\* line 132.
newClient ==
    /\ pc = "new_client"
    /\ \/ /\ client' = "live"
          /\ handles' = handles + 1
          /\ pc' = "post"
       \/ /\ UNCHANGED <<client, handles>>
          /\ pc' = "crashed"
    /\ UNCHANGED <<link, sensors, labels, attempts, httpResponseCode,
                   history, ref>>

\* a POST whose payload cuts the distance after two decimals without rounding
httpPostTruncated ==
    /\ pc = "post"
    /\ posted' = Append(posted,
                        [payload(rainAnalog, rainIntensity, distanceCM, floodStatus)
                           EXCEPT !.water_distance_cm = distanceCM \div 10])
    /\ \E code \in ResponseCodes : httpResponseCode' = code
    /\ pc' = "http_end"
    /\ UNCHANGED <<link, sensors, labels, attempts, client, handles, printed,
                   wifiOutcome, sawUp, sendRead, cw, ref>>

\* lines 134..145: setInsecure, http.begin, the header, the payload and POST
httpPost ==
    /\ pc = "post"
    /\ posted' = Append(posted,
                        payload(rainAnalog, rainIntensity, distanceCM, floodStatus))
    /\ \E code \in ResponseCodes : httpResponseCode' = code
    /\ pc' = "http_end"
    /\ UNCHANGED <<link, sensors, labels, attempts, client, handles, printed,
                   wifiOutcome, sawUp, sendRead, cw, ref>>

\* an end of the send that POSTs again after a transport failure
httpEndRetry ==
    /\ pc = "http_end"
    /\ IF httpResponseCode < 0
       THEN /\ pc' = "post"
            /\ UNCHANGED <<client, handles>>
       ELSE /\ pc' = "http_destroy"
            /\ client' = "dangling"
            /\ handles' = handles - 1
    /\ UNCHANGED <<link, sensors, labels, attempts, httpResponseCode,
                   history, ref>>

\* an end of the send that drops the link after a non-success answer
httpEndDropLink ==
    /\ pc = "http_end"
    /\ link' = IF httpResponseCode = 200 THEN link ELSE FALSE
    /\ client' = "dangling"
    /\ handles' = handles - 1
    /\ pc' = "http_destroy"
    /\ UNCHANGED <<sensors, labels, attempts, httpResponseCode, history, ref>>

\* an end of the send that deletes the client only after a 200
httpEndLeak ==
    /\ pc = "http_end"
    /\ client' = "dangling"
    /\ handles' = IF httpResponseCode = 200 THEN handles - 1 ELSE handles
    /\ pc' = "http_destroy"
    /\ UNCHANGED <<link, sensors, labels, attempts, httpResponseCode,
                   history, ref>>

\* lines 147..148: http.end() and delete client.  The pointer client is not
\* reset, and http still holds the reference it was given at line 137: both
\* now refer to a deleted object.
httpEnd ==
    /\ pc = "http_end"
    /\ client' = "dangling"
    /\ handles' = handles - 1
    /\ pc' = "http_destroy"
    /\ UNCHANGED <<link, sensors, labels, attempts, httpResponseCode,
                   history, ref>>

\* line 149: the block of line 133 ends and http is destroyed after the
\* client it refers to was deleted.  A destructor that uses the reference
\* reads freed memory: the run goes on to line 152, or it is aborted there
\* and never reaches the delay.
httpDestroy ==
    /\ pc = "http_destroy"
    /\ \/ pc' = "sleep"
       \/ pc' = "crashed"
    /\ UNCHANGED <<link, sensors, labels, attempts, http, history, ref>>

\* line 152: delay(4000); loop() returns and is called again: the locals and
\* the record of the cycle are gone
sleep ==
    /\ pc = "sleep"
    /\ pc' = "read_rain"
    /\ attempts' = 0
    /\ client' = "none"
    /\ httpResponseCode' = 0
    /\ printed' = NoRecord
    /\ posted' = <<>>
    /\ wifiOutcome' = "none"
    /\ sawUp' = FALSE
    /\ sendRead' = "none"
    /\ cw' = NoCall
    /\ UNCHANGED <<link, sensors, labels, handles, ref>>

-----------------------------------------------------------------------------
(* checkWiFi(), lines 47..64                                               *)

\* a checkWiFi that reconnects without looking at the status
cwEntryAlways ==
    /\ pc = "cw_entry"
    /\ sawUp' = (sawUp \/ link)
    /\ pc' = "cw_disconnect"
    /\ UNCHANGED <<link, sensors, labels, attempts, http, printed, posted,
                   wifiOutcome, sendRead, cw, ref>>

\* line 48: if (WiFi.status() != WL_CONNECTED)
cwEntry ==
    /\ pc = "cw_entry"
    /\ sawUp' = (sawUp \/ link)
    /\ IF link
       THEN /\ wifiOutcome' = "connected"
            /\ pc' = "send_check"
       ELSE /\ wifiOutcome' = wifiOutcome
            /\ pc' = "cw_disconnect"
    /\ UNCHANGED <<link, sensors, labels, attempts, http, printed, posted,
                   sendRead, cw, ref>>

\* lines 49..50: WiFi.disconnect()
cwDisconnect ==
    /\ pc = "cw_disconnect"
    /\ link' = FALSE
    /\ cw' = [cw EXCEPT !.disconnects = @ + 1]
    /\ pc' = "cw_begin"
    /\ UNCHANGED <<sensors, labels, attempts, http, printed, posted,
                   wifiOutcome, sawUp, sendRead, ref>>

\* lines 51..52: WiFi.begin(ssid, password); int attempts = 0
cwBegin ==
    /\ pc = "cw_begin"
    /\ cw' = [cw EXCEPT !.begins = @ + 1]
    /\ attempts' = 0
    /\ pc' = "cw_while"
    /\ UNCHANGED <<link, sensors, labels, http, printed, posted,
                   wifiOutcome, sawUp, sendRead, ref>>

\* line 53: while (WiFi.status() != WL_CONNECTED && attempts < 20)
cwWhile ==
    /\ pc = "cw_while"
    /\ sawUp' = (sawUp \/ link)
    /\ cw' = [cw EXCEPT
                !.downReads = IF link \/ @ > 20 THEN @ ELSE @ + 1,
                !.loopEnd = IF keepPolling(link, attempts) THEN "none"
                            ELSE IF link THEN "connected" ELSE "exhausted"]
    /\ pc' = IF keepPolling(link, attempts) THEN "cw_delay" ELSE "cw_result"
    /\ UNCHANGED <<link, sensors, labels, attempts, http, printed, posted,
                   wifiOutcome, sendRead, ref>>

\* a poll loop that calls WiFi.begin again after every delay
cwDelayRebegin ==
    /\ pc = "cw_delay"
    /\ attempts' = attempts + 1
    /\ cw' = [cw EXCEPT !.begins = @ + 1]
    /\ pc' = "cw_while"
    /\ UNCHANGED <<link, sensors, labels, http, printed, posted,
                   wifiOutcome, sawUp, sendRead, ref>>

\* lines 54..56: delay(500); attempts++, so attempts counts the delays
cwDelay ==
    /\ pc = "cw_delay"
    /\ attempts' = attempts + 1
    /\ pc' = "cw_while"
    /\ UNCHANGED <<link, sensors, labels, http, history, ref>>

\* lines 58..62: if (WiFi.status() == WL_CONNECTED) "Reconnected!" else
\* "Reconnection failed."; the call returns
cwResult ==
    /\ pc = "cw_result"
    /\ sawUp' = (sawUp \/ link)
    /\ wifiOutcome' = IF link THEN "reconnected" ELSE "failed"
    /\ pc' = "send_check"
    /\ UNCHANGED <<link, sensors, labels, attempts, http, printed, posted,
                   sendRead, cw, ref>>

-----------------------------------------------------------------------------
(* The radio: the link comes up or goes down on its own                    *)

linkChange ==
    /\ link' = ~link
    /\ UNCHANGED <<pc, sensors, labels, attempts, http, history, ref>>

-----------------------------------------------------------------------------
(* The program from power-on                                               *)

\* the sample and the labels of a finished cycle are remembered, once, to be
\* compared with those of later cycles (lines 17..21 are never reset)
remember ==
    /\ pc = "sleep"
    /\ ref = NoRecord
    /\ ref' = [rainAnalog |-> rainAnalog, distanceCM |-> distanceCM,
               rainIntensity |-> rainIntensity, floodStatus |-> floodStatus,
               wifiOutcome |-> wifiOutcome]
    /\ UNCHANGED <<pc, link, sensors, labels, attempts, http, history>>

checkWiFi == cwEntry \/ cwDisconnect \/ cwBegin \/ cwWhile \/ cwDelay \/ cwResult

setup == setupBegin \/ setupWait \/ setupDelay \/ setupDone

loop ==
    \/ readRain(RainSamples)
    \/ getUltrasonic(EchoSamples)
    \/ rainLadder
    \/ floodLadder
    \/ serialOut
    \/ checkWiFi
    \/ sendCheck
    \/ newClient
    \/ httpPost
    \/ httpEnd
    \/ httpDestroy
    \/ sleep

Next == setup \/ loop \/ linkChange

\* the tail of a cycle, after the two ladders
afterLadders ==
    \/ serialOut \/ checkWiFi \/ sendCheck \/ newClient
    \/ httpPost \/ httpEnd \/ httpDestroy \/ sleep

\* the same program on few samples, one finished cycle remembered
NextRecall ==
    \/ setup
    \/ readRain(FewRainSamples)
    \/ getUltrasonic(FewEchoSamples)
    \/ rainLadder
    \/ floodLadder
    \/ afterLadders
    \/ linkChange
    \/ remember

SpecRecall == Init /\ [][NextRecall]_vars

\* the first cycle right after line 84 read the rain sensor
InitSampled(raws) ==
    /\ pc = "ultrasonic"
    /\ link = TRUE
    /\ duration = 0
    /\ distanceCM = 0
    /\ rainAnalog \in raws
    /\ rainIntensity = ""
    /\ floodStatus = ""
    /\ attempts = 0
    /\ client = "none"
    /\ httpResponseCode = 0
    /\ handles = 0
    /\ printed = NoRecord
    /\ posted = <<>>
    /\ wifiOutcome = "none"
    /\ sawUp = FALSE
    /\ sendRead = "none"
    /\ cw = NoCall
    /\ ref = NoRecord

\* sampling and the two ladders for every value of the ADC
NextClassify == getUltrasonic(EchoSamples) \/ rainLadder \/ floodLadder

SpecClassify == InitSampled(0..AdcMax) /\ [][NextClassify]_vars

\* sampling and the two ladders for every echo time up to the timeout
NextUltrasonic == getUltrasonic(AllEchoTimes) \/ rainLadder \/ floodLadder

SpecUltrasonic == InitSampled(FewRainSamples) /\ [][NextUltrasonic]_vars

Spec == Init /\ [][Next]_vars

\* delay, pulseIn with its timeout and http.POST all return: the program
\* always takes its next step; nothing is assumed of the radio
FairSpec == Spec /\ WF_vars(setup \/ loop)

-----------------------------------------------------------------------------
(* Positions                                                               *)

\* rainIntensity holds the label of this cycle
rainClassified ==
    pc \in {"flood_ladder", "serial_out", "cw_entry", "cw_disconnect",
            "cw_begin", "cw_while", "cw_delay", "cw_result", "send_check",
            "new_client", "post", "http_end", "http_destroy", "sleep"}

\* both labels hold the classification of this cycle
classified == rainClassified /\ pc # "flood_ladder"

\* getUltrasonic has returned in this cycle
measured == pc = "rain_ladder" \/ rainClassified

-----------------------------------------------------------------------------
(* Claims C1..C10                                                          *)

\* C1: the rain intensity computed in a cycle is NO RAIN iff rain_raw > 3600,
\* LIGHT iff 3000 < rain_raw <= 3600, MODERATE iff 2400 < rain_raw <= 3000,
\* HEAVY iff 1800 < rain_raw <= 2400 and TORRENTIAL iff rain_raw <= 1800, for
\* every value of the ADC: each boundary value falls into the lower band.
C1_RainBands ==
    rainClassified =>
        /\ rainIntensity = "NO RAIN" <=> rainAnalog > 3600
        /\ rainIntensity = "LIGHT RAIN" <=> (3000 < rainAnalog /\ rainAnalog <= 3600)
        /\ rainIntensity = "MODERATE RAIN" <=> (2400 < rainAnalog /\ rainAnalog <= 3000)
        /\ rainIntensity = "HEAVY RAIN" <=> (1800 < rainAnalog /\ rainAnalog <= 2400)
        /\ rainIntensity = "TORRENTIAL RAIN" <=> rainAnalog <= 1800

\* the boundary value 3600 was sampled and classified LIGHT RAIN
C1_Witness ==
    rainClassified /\ rainAnalog = 3600 /\ rainIntensity = "LIGHT RAIN"

\* C2: the flood status is CRITICAL FLOOD whenever rain_raw < 2400 and the
\* distance is below 10 cm, FLOOD RISK exactly when rain_raw < 2400 and the
\* distance is in [10 cm, 20 cm), RAIN ALERT exactly when rain_raw < 2400 and
\* the distance is at least 20 cm.
C2_FloodPriority ==
    classified =>
        /\ (rainAnalog < 2400 /\ distanceCM < 10000) => floodStatus = "CRITICAL FLOOD"
        /\ floodStatus = "FLOOD RISK" <=>
               (rainAnalog < 2400 /\ 10000 <= distanceCM /\ distanceCM < 20000)
        /\ floodStatus = "RAIN ALERT" <=>
               (rainAnalog < 2400 /\ 20000 <= distanceCM)

\* rain just below 2400 with an echo of 9.996 cm was classified CRITICAL FLOOD
C2_Witness ==
    /\ classified
    /\ rainAnalog = 2399
    /\ duration = 588
    /\ distanceCM = 9996
    /\ floodStatus = "CRITICAL FLOOD"

\* C3: whenever rain_raw >= 2400 the flood status is NORMAL, however small
\* the distance is.
C3_NormalWithoutRain ==
    (classified /\ rainAnalog >= 2400) => floodStatus = "NORMAL"

\* no rain (3601) and an obstruction closer than 10 cm: NO RAIN and NORMAL
C3_Witness ==
    /\ classified
    /\ rainAnalog = 3601
    /\ duration > 0
    /\ distanceCM < 10000
    /\ rainIntensity = "NO RAIN"
    /\ floodStatus = "NORMAL"

\* C4: after the classification step both labels are enumerated labels, and
\* they are the labels an earlier cycle with another history gave to the same
\* rain_raw and distance: the classification depends on the current sample
\* only.
C4_SameSampleSameLabels ==
    classified =>
        /\ rainIntensity \in RainLabels
        /\ floodStatus \in FloodLabels
        /\ (/\ ref # NoRecord
            /\ ref.rainAnalog = rainAnalog
            /\ ref.distanceCM = distanceCM)
             => (/\ ref.rainIntensity = rainIntensity
                 /\ ref.floodStatus = floodStatus)

\* a cycle classifies the sample of a remembered cycle; the remembered cycle
\* ended in a failed reconnection, this one found the link up and posts
C4_Witness ==
    /\ pc = "http_end"
    /\ ref # NoRecord
    /\ ref.rainAnalog = rainAnalog
    /\ ref.distanceCM = distanceCM
    /\ ref.wifiOutcome = "failed"
    /\ wifiOutcome = "connected"
    /\ rainAnalog < 2400
    /\ distanceCM > 10000
    /\ distanceCM < 20000

\* C5: getUltrasonic returns exactly 400 cm when pulseIn reports 0, and the
\* cycle goes on to classify with that distance; for an elapsed time t > 0 it
\* returns (t * 0.034) / 2 cm.
C5_NoEchoDistance ==
    /\ measured =>
          /\ duration = 0 => distanceCM = 400 * 1000
          /\ duration > 0 => 2 * distanceCM = duration * 34
    /\ (classified /\ duration = 0) =>
          floodStatus = IF rainAnalog < 2400 THEN "RAIN ALERT" ELSE "NORMAL"

\* no echo, and the cycle classified with 400 cm
C5_Witness ==
    /\ pc = "serial_out"
    /\ duration = 0
    /\ distanceCM = 400000
    /\ rainAnalog < 2400
    /\ floodStatus = "RAIN ALERT"

\* C6: a call of checkWiFi that finds the link down delays at most 20 times
\* and returns; when no status read of the call shows the link connected it
\* returns after exactly 20 delays with "Reconnection failed."
C6_BoundedPolling ==
    /\ attempts <= 20
    /\ (pc = "cw_delay") => attempts < 20
    /\ (pc = "send_check" /\ wifiOutcome # "connected" /\ ~sawUp) =>
          (wifiOutcome = "failed" /\ attempts = 20)

\* the call has returned after 20 delays without ever reading the link up
C6_Witness ==
    /\ pc = "send_check"
    /\ wifiOutcome = "failed"
    /\ attempts = 20
    /\ ~sawUp
    /\ cw.begins = 1

\* C7: in a cycle all of whose status reads show the link down, the diagnostic
\* block is printed, no client is created, nothing is POSTed, and the cycle
\* reaches its sleep.
C7_LinkDownCycle ==
    /\ pc \in {"new_client", "post", "http_end", "http_destroy", "crashed"}
          => sawUp
    /\ (pc = "sleep" /\ ~sawUp) =>
          /\ printed = record(rainAnalog, rainIntensity, distanceCM, floodStatus)
          /\ sendRead = "down"
          /\ posted = <<>>
          /\ client = "none"
          /\ handles = 0

\* a cycle is at its sleep, having read the link down at lines 48, 53, 58, 131
C7_Witness ==
    /\ pc = "sleep"
    /\ ~sawUp
    /\ sendRead = "down"
    /\ wifiOutcome = "failed"
    /\ printed # NoRecord
    /\ posted = <<>>

\* C8 as claimed: when checkWiFi has used up its 20 attempts and ends with
\* "Reconnection failed." nothing is POSTed in that cycle, however the link
\* changes while the cycle runs.
C8_NoPostAfterFailure ==
    (wifiOutcome = "failed" /\ attempts = 20) => posted = <<>>

\* C8 amended: when checkWiFi has used up its 20 attempts and ends with
\* "Reconnection failed." nothing is POSTed and no client is created in that
\* cycle unless the status read of line 131 finds the link connected.
C8_NoPostUnlessReadUp ==
    (wifiOutcome = "failed" /\ attempts = 20 /\ sendRead # "up") =>
        /\ posted = <<>>
        /\ client = "none"
        /\ pc \notin {"new_client", "post", "http_end", "http_destroy",
                     "crashed"}

\* the reconnection failed after 20 delays, line 131 read the link down, and
\* the cycle sleeps without a POST although the link is up by now
C8_Witness ==
    /\ pc = "sleep"
    /\ wifiOutcome = "failed"
    /\ attempts = 20
    /\ sendRead = "down"
    /\ posted = <<>>
    /\ link

\* C9 as claimed: from power-on the node samples and classifies in infinitely
\* many cycles even when the link is never available.
C9_AlwaysSampling ==
    ([](~link)) => []<>(pc = "serial_out")

\* C10 as claimed: every cycle that starts reaches its sleep, and every sleep
\* is followed by the start of the next cycle, whatever the sensors, the link
\* and the send do.
C10_CycleCompletes ==
    /\ (pc = "read_rain") ~> (pc = "sleep")
    /\ (pc = "sleep") ~> (pc = "read_rain")

-----------------------------------------------------------------------------
(* Claims C11..C19                                                         *)

\* C11: at most one POST is issued per cycle, whatever its result: after a
\* POST the cycle goes to its sleep without another one, and the payload is
\* built from the values of this cycle, so nothing is re-sent later.
C11_OnePostPerCycle ==
    /\ Len(posted) <= 1
    /\ pc = "post" => posted = <<>>
    /\ pc = "http_end" => Len(posted) = 1
    /\ \A i \in 1..Len(posted) :
          posted[i] = payload(rainAnalog, rainIntensity, distanceCM, floodStatus)

\* a cycle is at its sleep after one POST that failed in the transport
C11_Witness ==
    /\ pc = "sleep"
    /\ Len(posted) = 1
    /\ httpResponseCode = -1

\* the positions inside checkWiFi after its entry check
inReconnect ==
    pc \in {"cw_disconnect", "cw_begin", "cw_while", "cw_delay", "cw_result"}

\* C12: checkWiFi is a no-op when its entry check reads the link connected:
\* the call returns at once, with no disconnect, no begin, no poll and no
\* delay, and leaves the link, the sample and the labels as they were.
C12_NoOpWhenConnected ==
    [][/\ (pc = "cw_entry" /\ link /\ pc' # pc) =>
             /\ pc' = "send_check"
             /\ wifiOutcome' = "connected"
             /\ UNCHANGED <<link, sensors, labels, attempts, cw, http,
                            printed, posted>>
       /\ (wifiOutcome' = "connected") =>
             /\ cw' = NoCall
             /\ attempts' = 0
             /\ ~inReconnect'
      ]_vars

\* the entry check read the link up and the call has returned untouched
C12_Witness ==
    /\ pc = "send_check"
    /\ wifiOutcome = "connected"
    /\ cw = NoCall
    /\ attempts = 0
    /\ link

\* the steps of one cycle in their order: from each position, the next ones
StepOrder ==
    {<<"read_rain", "ultrasonic">>, <<"ultrasonic", "rain_ladder">>,
     <<"rain_ladder", "flood_ladder">>, <<"flood_ladder", "serial_out">>,
     <<"serial_out", "cw_entry">>,
     <<"cw_entry", "cw_disconnect">>, <<"cw_entry", "send_check">>,
     <<"cw_disconnect", "cw_begin">>, <<"cw_begin", "cw_while">>,
     <<"cw_while", "cw_delay">>, <<"cw_delay", "cw_while">>,
     <<"cw_while", "cw_result">>, <<"cw_result", "send_check">>,
     <<"send_check", "new_client">>, <<"send_check", "sleep">>,
     <<"new_client", "post">>, <<"new_client", "crashed">>,
     <<"post", "http_end">>, <<"http_end", "http_destroy">>,
     <<"http_destroy", "sleep">>, <<"http_destroy", "crashed">>,
     <<"sleep", "read_rain">>}

\* the positions of the network actions of a cycle
networkStep ==
    pc \in {"cw_entry", "cw_disconnect", "cw_begin", "cw_while", "cw_delay",
            "cw_result", "send_check", "new_client", "post", "http_end",
            "http_destroy"}

\* the positions of a cycle before its diagnostic block is printed
beforePrint ==
    pc \in {"read_rain", "ultrasonic", "rain_ladder", "flood_ladder",
            "serial_out"}

\* C13: within a cycle the steps follow sample rain, sample distance,
\* classify, print, checkWiFi, send (only behind a connected read), sleep;
\* the diagnostic block is printed once and before any network action, and a
\* cycle starts only when the one before has ended with nothing left open.
C13_StepOrder ==
    [][(pc' # pc /\ pc \notin {"setup_begin", "setup_wait", "setup_delay"}) =>
          /\ (pc = "setup_done" \/ <<pc, pc'>> \in StepOrder)
          /\ (pc = "setup_done") => pc' = "read_rain"
          /\ (pc' = "new_client") => (link /\ wifiOutcome # "none")
          /\ beforePrint' => (printed' = NoRecord /\ posted' = <<>>)
          /\ networkStep' =>
                printed' = record(rainAnalog, rainIntensity, distanceCM, floodStatus)
          /\ (pc' = "read_rain") =>
                (handles' = 0 /\ client' = "none" /\ cw' = NoCall)
      ]_vars

\* a full cycle: printed, reconnected after polling, one POST, now at its sleep
C13_Witness ==
    /\ pc = "sleep"
    /\ printed # NoRecord
    /\ wifiOutcome = "reconnected"
    /\ attempts > 0
    /\ Len(posted) = 1

\* C14: the outcome of a send changes nothing a later cycle reads: the steps
\* from the POST to the sleep are the same for every response code and leave
\* the link, the attempt count, the sample and the labels unchanged, and the
\* response code is gone when the next cycle starts.
C14_SendOutcomeIgnored ==
    [][/\ (pc = "post" /\ pc' # pc) =>
             /\ pc' = "http_end"
             /\ UNCHANGED <<link, sensors, labels, attempts, client, handles>>
       /\ (pc = "http_end" /\ pc' # pc) =>
             /\ pc' = "http_destroy"
             /\ handles' = 0
             /\ UNCHANGED <<link, sensors, labels, attempts, httpResponseCode>>
       /\ (pc = "http_destroy" /\ pc' # pc) =>
             UNCHANGED <<link, sensors, labels, attempts, http>>
       /\ (pc = "sleep" /\ pc' # pc) =>
             /\ pc' = "read_rain"
             /\ httpResponseCode' = 0
             /\ UNCHANGED <<link, sensors, labels, handles>>
      ]_vars

\* a cycle is at its sleep after a POST answered 500, the link still up
C14_Witness ==
    /\ pc = "sleep"
    /\ httpResponseCode = 500
    /\ Len(posted) = 1
    /\ link

\* C15: the WiFiClientSecure created for a cycle's send is deleted on every
\* path of that cycle: at most one is live at any time, one is live only
\* between its creation and its delete, and none is live at a sleep, whatever
\* the send returned.
C15_HandleReleased ==
    /\ handles \in {0, 1}
    /\ handles = 1 <=> pc \in {"post", "http_end"}
    /\ handles = 1 <=> client = "live"
    /\ pc \in {"http_destroy", "sleep", "crashed"} => handles = 0

\* a cycle is at its sleep after a failed POST, its client deleted
C15_Witness ==
    /\ pc = "sleep"
    /\ Len(posted) = 1
    /\ httpResponseCode = -1
    /\ handles = 0
    /\ client = "dangling"

\* C16 as claimed: every message sent in a cycle carries exactly the rain_raw
\* and the distance_cm sampled in that cycle and the labels classified from
\* them, the values the diagnostic block of that cycle printed.
C16_ExactSampleSent ==
    \A i \in 1..Len(posted) :
        /\ posted[i].rain_analog = rainAnalog
        /\ 10 * posted[i].water_distance_cm = distanceCM
        /\ posted[i].water_distance_cm = printed.water_distance_cm
        /\ posted[i].rain_intensity = rainIntensityOf(rainAnalog)
        /\ posted[i].flood_status = floodStatusOf(rainAnalog, distanceCM)

\* C16 amended: every message sent in a cycle carries the rain_raw sampled in
\* that cycle, the distance_cm sampled in that cycle as String(float) writes
\* it with two decimals, which is within 0.005 cm of the sample, and the
\* labels classified from the unrounded sample, never values of another
\* cycle.  The rain_raw and the labels are those the diagnostic block of that
\* cycle printed; the distance sent is the distance printed unless the sample
\* lies half-way between two hundredths, where the two may differ by 0.01 cm.
C16_PrintedSampleSent ==
    \A i \in 1..Len(posted) :
        /\ posted[i].rain_analog = rainAnalog
        /\ posted[i].rain_analog = printed.rain_analog
        /\ 10 * posted[i].water_distance_cm - distanceCM \in -5..5
        /\ 10 * printed.water_distance_cm - distanceCM \in -5..5
        /\ distanceCM % 10 # 5 =>
              posted[i].water_distance_cm = printed.water_distance_cm
        /\ posted[i].water_distance_cm - printed.water_distance_cm \in -1..1
        /\ posted[i].rain_intensity = rainIntensityOf(rainAnalog)
        /\ posted[i].rain_intensity = printed.rain_intensity
        /\ posted[i].flood_status = floodStatusOf(rainAnalog, distanceCM)
        /\ posted[i].flood_status = printed.flood_status

\* after polling and reconnecting, an echo of 14.875 cm classified FLOOD RISK
\* is printed as 14.88 cm and sent as 14.87 cm
C16_Witness ==
    /\ Len(posted) = 1
    /\ wifiOutcome = "reconnected"
    /\ attempts > 0
    /\ duration = 875
    /\ distanceCM = 14875
    /\ printed.water_distance_cm = 1488
    /\ posted[1].water_distance_cm = 1487
    /\ posted[1].flood_status = "FLOOD RISK"

\* the labels of little or no rain
mildRain == {"NO RAIN", "LIGHT RAIN", "MODERATE RAIN"}

\* C17 as claimed: in every cycle the flood status is NORMAL exactly when the
\* rain intensity is NO RAIN, LIGHT RAIN or MODERATE RAIN, for every rain_raw
\* including 2400.
C17_LaddersAgree ==
    classified => (floodStatus = "NORMAL" <=> rainIntensity \in mildRain)

\* C17 amended: the flood status is NORMAL exactly when the rain intensity is
\* NO RAIN, LIGHT RAIN or MODERATE RAIN for every rain_raw other than 2400; at
\* rain_raw = 2400 the rain intensity is HEAVY RAIN and the flood status is
\* NORMAL at every distance.
C17_LaddersAgreeOff2400 ==
    classified =>
        /\ rainAnalog # 2400 =>
              (floodStatus = "NORMAL" <=> rainIntensity \in mildRain)
        /\ rainAnalog = 2400 =>
              (rainIntensity = "HEAVY RAIN" /\ floodStatus = "NORMAL")

\* rain_raw = 2400 with an obstruction closer than 10 cm: HEAVY RAIN, NORMAL
C17_Witness ==
    /\ classified
    /\ rainAnalog = 2400
    /\ duration > 0
    /\ distanceCM < 10000
    /\ rainIntensity = "HEAVY RAIN"
    /\ floodStatus = "NORMAL"

\* C18 as claimed: for every elapsed time pulseIn can report within its
\* timeout (0..30000) the distance returned is at most 400 cm.
C18_SentinelIsMaximum ==
    measured => distanceCM <= 400 * 1000

\* C18 amended: the distance returned is 400 cm for no echo, below 400 cm for
\* the elapsed times 1..23529, and above 400 cm, up to 510 cm, for the elapsed
\* times 23530..30000: the no-echo value is not an upper bound.
C18_SentinelNotMaximum ==
    measured =>
        /\ duration = 0 => distanceCM = 400 * 1000
        /\ (1 <= duration /\ duration <= 23529) => distanceCM < 400 * 1000
        /\ (23530 <= duration /\ duration <= PulseTimeout) =>
              (400 * 1000 < distanceCM /\ distanceCM <= 510 * 1000)

\* an echo just inside the timeout gives 510 cm, more than the no-echo value
C18_Witness ==
    /\ measured
    /\ duration = PulseTimeout
    /\ distanceCM = 510 * 1000

\* checkWiFi found the link down and has issued disconnect and begin
reconnecting ==
    \/ pc \in {"cw_while", "cw_delay", "cw_result"}
    \/ wifiOutcome \in {"reconnected", "failed"}

\* C19: a call of checkWiFi that finds the link down issues one disconnect,
\* then one begin, then polls, and issues neither again; polling stops at the
\* first read of line 53 that shows the link connected, the delays made are
\* then as many as the not-connected reads before it, and fewer than 20 when
\* the call ends reconnected after a connected read before the 20th delay.
C19_ReconnectOnce ==
    /\ pc = "cw_disconnect" => cw = NoCall
    /\ pc = "cw_begin" =>
          (cw.disconnects = 1 /\ cw.begins = 0 /\ cw.downReads = 0)
    /\ reconnecting => (cw.disconnects = 1 /\ cw.begins = 1)
    /\ pc = "cw_while" => (cw.loopEnd = "none" /\ cw.downReads = attempts)
    /\ pc = "cw_delay" => (cw.loopEnd = "none" /\ cw.downReads = attempts + 1)
    /\ cw.loopEnd = "connected" =>
          (attempts = cw.downReads /\ pc \notin {"cw_while", "cw_delay"})
    /\ cw.loopEnd = "exhausted" => (attempts = 20 /\ cw.downReads = 21)
    /\ (wifiOutcome = "reconnected" /\ cw.downReads < 20) =>
          (attempts < 20 /\ cw.loopEnd = "connected")

\* the call ended reconnected: one disconnect, one begin, and as many delays
\* as not-connected reads, fewer than 20
C19_Witness ==
    /\ pc = "send_check"
    /\ wifiOutcome = "reconnected"
    /\ cw.disconnects = 1
    /\ cw.begins = 1
    /\ cw.loopEnd = "connected"
    /\ attempts = 7
    /\ cw.downReads = 7

=============================================================================
